---------------------------- MODULE Spec2Model ----------------------------
(***************************************************************************)
(* Elder Cloud Backend: the POST /upload pipeline (auth gate, temporary    *)
(* audio file, transcription with model fallback, e-mail delivery) and     *)
(* GET /healthz, as written in src/server.mjs and in the older deployment  *)
(* variants kept in src/unnamed/part_000, part_001 and part_002.            *)
(*                                                                         *)
(* A request runs as a chain of synchronous segments separated by the      *)
(* awaits of the handler; every action below is one such segment (or a     *)
(* prefix of one, which only adds interleavings).                          *)
(*                                                                         *)
(* JavaScript strings are sequences of one-character strings; a JavaScript *)
(* value that may be undefined or null is a record [t, s].                 *)
(***************************************************************************)
EXTENDS Integers, Sequences, FiniteSets, TLC

\* ------------------------------------------------------------------------
\* Bounds
\* ------------------------------------------------------------------------

\* Requests accepted by the process during one run (each may create a file).
MaxArrivals == 2

\* ------------------------------------------------------------------------
\* JavaScript values and strings
\* ------------------------------------------------------------------------

Undef == [t |-> "undefined", s |-> <<>>]

Null == [t |-> "null", s |-> <<>>]

Str(s) == [t |-> "string", s |-> s]

\* A JSON number (non-zero), by its digits.
Num(digits) == [t |-> "number", s |-> digits]

\* JavaScript truthiness for undefined, null, strings and non-zero numbers.
Truthy(v) == v.t \in {"string", "number"} /\ v.s # <<>>

IsSpace(c) == c \in {" ", "\t", "\n"}

RECURSIVE TrimStart(_)
TrimStart(s) ==
  IF s # <<>> /\ IsSpace(Head(s)) THEN TrimStart(Tail(s)) ELSE s

RECURSIVE TrimEnd(_)
TrimEnd(s) ==
  IF s # <<>> /\ IsSpace(s[Len(s)]) THEN TrimEnd(SubSeq(s, 1, Len(s) - 1)) ELSE s

\* String.prototype.trim
Trim(s) == TrimEnd(TrimStart(s))

\* String.prototype.slice(0, n)
Slice0(s, n) == SubSeq(s, 1, IF Len(s) < n THEN Len(s) ELSE n)

ToLower(c) ==
  CASE c = "B" -> "b"
    [] c = "E" -> "e"
    [] c = "A" -> "a"
    [] c = "R" -> "r"
    [] OTHER -> c

LowerCase(s) == [i \in 1..Len(s) |-> ToLower(s[i])]

\* s.replace(/^Bearer\s+/i, "")
StripBearer(s) ==
  IF /\ Len(s) >= 7
     /\ LowerCase(SubSeq(s, 1, 6)) = <<"b", "e", "a", "r", "e", "r">>
     /\ IsSpace(s[7])
  THEN TrimStart(SubSeq(s, 7, Len(s)))
  ELSE s

\* ------------------------------------------------------------------------
\* Texts used by the model
\* ------------------------------------------------------------------------

Secret == <<"s", "3">>

SecretPadded == <<"s", "3", " ">>

Wrong == <<"x", "x">>

BearerSecret == <<"B", "e", "a", "r", "e", "r", " ", "s", "3">>

EmptyTranscript ==
  <<"(", "e", "m", "p", "t", "y", " ", "t", "r", "a", "n", "s", "c", "r", "i", "p", "t", ")">>

NoTranscriptReturned ==
  <<"(", "N", "o", " ", "t", "r", "a", "n", "s", "c", "r", "i", "p", "t", " ",
    "r", "e", "t", "u", "r", "n", "e", "d", ")">>

Address == <<"a", "@", "b">>

AudioB64 == <<"Q", "Q", "=", "=">>

FileName == <<"a", ".", "m">>

Language == <<"p", "t">>

Copy == <<"c", "@", "d">>

ElderLabel == <<"E", "l", "d", "e", "r", ":", " ">>

RecorderLabel == <<"R", "e", "c", "o", "r", "d", "e", "d", " ", "b", "y", ":", " ">>

FileLabel == <<"F", "i", "l", "e", ":", " ">>

\* The default of audioFileName (server.mjs) and of filename (part_000).
DefaultAudioFileName == <<"i", "n", "t", "e", "r", "v", "i", "e", "w", ".", "m", "4", "a">>

DefaultFilename == <<"a", "u", "d", "i", "o", ".", "m", "4", "a">>

TranscriptName == <<"t", "r", "a", "n", "s", "c", "r", "i", "p", "t">>

TxtSuffix == <<".", "t", "x", "t">>

\* ------------------------------------------------------------------------
\* State
\* ------------------------------------------------------------------------

VARIABLES
  variant,         \* which server file is deployed
  API_SHARED_KEY,  \* process.env.API_SHARED_KEY
  DEFAULT_EMAIL,   \* process.env.DEFAULT_EMAIL (part_002), DEFAULT_TO || SMTP_USER (multipart)
  req,             \* the request being served in each slot
  files,           \* paths of the temporary / uploaded files that exist on disk
  arrivals         \* requests accepted so far

vars == <<variant, API_SHARED_KEY, DEFAULT_EMAIL, req, files, arrivals>>

\* src/server.mjs (and its twin src/unnamed/part_001:1-203), src/unnamed/part_000,
\* src/unnamed/part_001:205-304 (multer + fetch), src/unnamed/part_002.
Variants == {"server", "part_000", "multipart", "part_002"}

JsonVariants == {"server", "part_000"}

MultipartVariants == {"multipart", "part_002"}

\* Request slots: the requests the process may have in flight at once.
Slots == {1, 2}

\* Spec serves the requests one after the other through slot 1.
Reqs == {1}

NoHeaders == [xshared |-> Undef, xapi |-> Undef, authorization |-> Undef]

\* The header combinations a client may send.
HeaderCases ==
  { NoHeaders,
    [NoHeaders EXCEPT !.xshared = Str(Secret)],
    [NoHeaders EXCEPT !.xshared = Str(Wrong)],
    [NoHeaders EXCEPT !.xshared = Str(<<>>), !.xapi = Str(Secret)],
    [NoHeaders EXCEPT !.xapi = Str(Secret)],
    [NoHeaders EXCEPT !.xapi = Str(SecretPadded)],
    [NoHeaders EXCEPT !.authorization = Str(BearerSecret)] }

NoBody ==
  [ email |-> Undef, audio |-> Undef, fileName |-> Undef, language |-> Undef,
    elderName |-> Undef, replyDisplayName |-> Undef, cc |-> Undef, bcc |-> Undef ]

\* caregiverEmail | emailTo | to, audioB64 | audioBase64 | the "audio" file part,
\* audioFileName | filename, language, elderName, replyDisplayName,
\* ccEmail | emailCc, bccEmail | emailBcc.
Bodies ==
  [ email : {Undef, Str(<<>>), Str(Address)},
    audio : {Undef, Str(<<>>), Str(AudioB64)},
    fileName : {Undef, Null, Str(FileName)},
    language : {Undef},
    elderName : {Undef}, replyDisplayName : {Undef}, cc : {Undef}, bcc : {Undef} ]
  \cup
  [ email : {Str(Address)},
    audio : {Str(AudioB64), Num(<<"7">>)},
    fileName : {Undef, Str(FileName)},
    language : {Undef, Str(Language)},
    elderName : {Undef}, replyDisplayName : {Undef}, cc : {Undef}, bcc : {Undef} ]

\* What a client may send: method, path, headers, body.
Inputs ==
  [method : {"POST"}, path : {"/upload"}, headers : HeaderCases, body : Bodies]
    \cup
  [method : {"GET", "POST"}, path : {"/healthz", "/other"},
   headers : HeaderCases, body : {NoBody}]

IdleReq ==
  [ pc |-> "idle", id |-> 0, method |-> "GET", path |-> "/healthz",
    headers |-> NoHeaders, body |-> NoBody,
    gate |-> "pending",       \* pending | exempt | allowed | denied | none
    tmpPath |-> 0,            \* the request's temporary file, 0 when it has none
    calls |-> <<>>,           \* provider calls: [model, language, status, text, err]
    returned |-> <<>>,        \* the text transcribe() returned
    thrown |-> "none",        \* the error transcribe() / the provider call failed with
    transcriptText |-> Undef,
    mails |-> <<>>,           \* sendMail attempts: [to, transcript, status]
    trace |-> <<>>,           \* side effects in the order they happened
    log |-> <<>>,             \* objects the auth middleware passed to console.warn
    fds |-> {},               \* descriptors the request opened and has not closed
    resp |-> <<>> ]           \* res.json calls: [status, ok, error, transcript]

Response(status, ok, error, transcript) ==
  [status |-> status, ok |-> ok, error |-> error, transcript |-> transcript]

\* res.status(status).json(body) on request record q
Respond(q, status, ok, error, transcript) ==
  [q EXCEPT !.resp = Append(@, Response(status, ok, error, transcript)),
            !.trace = Append(@, "respond")]

Finish(q) == [q EXCEPT !.pc = "done"]

Init ==
  /\ variant \in Variants
  /\ \/ /\ variant = "server"
        /\ API_SHARED_KEY \in {Undef, Str(<<" ">>), Str(Secret), Str(SecretPadded)}
     \/ variant # "server" /\ API_SHARED_KEY \in {Undef, Str(Secret)}
  /\ \/ variant = "part_002" /\ DEFAULT_EMAIL \in {Undef, Str(Address)}
     \/ variant # "part_002" /\ DEFAULT_EMAIL = Str(Address)
  /\ req = [r \in Slots |-> IdleReq]
  /\ files = {}
  /\ arrivals = 0

\* ------------------------------------------------------------------------
\* Arrival, health check, auth gate
\* ------------------------------------------------------------------------

\* A request reaches the express app (body parsed by express.json or multer).
Arrive(r) ==
  /\ req[r].pc \in {"idle", "done"}
  /\ arrivals < MaxArrivals
  /\ \E i \in Inputs :
       req' = [req EXCEPT ![r] =
                 [IdleReq EXCEPT !.pc = "arrived", !.id = arrivals + 1,
                                 !.method = i.method, !.path = i.path,
                                 !.headers = i.headers, !.body = i.body]]
  /\ arrivals' = arrivals + 1
  /\ UNCHANGED <<variant, API_SHARED_KEY, DEFAULT_EMAIL, files>>

IsHealthz(q) == q.method = "GET" /\ q.path = "/healthz"

IsUpload(q) == q.method = "POST" /\ q.path = "/upload"

\* x-shared-key ?? x-api-key ?? authorization minus "Bearer ", then || ""
HeaderKey(h) ==
  LET v == IF h.xshared.t # "undefined" THEN h.xshared
           ELSE IF h.xapi.t # "undefined" THEN h.xapi
           ELSE Str(StripBearer(IF Truthy(h.authorization) THEN h.authorization.s ELSE <<>>))
  IN  IF Truthy(v) THEN v.s ELSE <<>>

\* const k = String(headerKey).trim()
Credential(h) == Trim(HeaderKey(h))

\* const expected = String(API_SHARED_KEY || "").trim()
Expected(key) == Trim(IF Truthy(key) THEN key.s ELSE <<>>)

\* Mutant: the `k &&` guard inverted, an absent credential passes.
AuthAllowsEmptyCredential(h, key) ==
  \/ Expected(key) = <<>>
  \/ Credential(h) = <<>>
  \/ Credential(h) = Expected(key)

\* The decision of the tolerant auth middleware: TRUE when it calls next().
AuthAllows(h, key) ==
  \/ Expected(key) = <<>>
  \/ Credential(h) # <<>> /\ Credential(h) = Expected(key)

\* The decision of part_000's middleware: !API_SHARED_KEY || k === API_SHARED_KEY
ApiKeyAllows(h, key) ==
  \/ ~Truthy(key)
  \/ h.xapi = key

\* Mutant: the health route registered behind an auth gate without exemption.
HealthzBehindAuth(r) ==
  /\ req[r].pc = "arrived"
  /\ IsHealthz(req[r])
  /\ req' = [req EXCEPT ![r] =
               IF AuthAllows(@.headers, API_SHARED_KEY)
               THEN Finish(Respond([@ EXCEPT !.gate = "allowed"], 200, "true", "absent", Undef))
               ELSE Finish(Respond([@ EXCEPT !.gate = "denied"],
                                   401, "false", "Unauthorized", Undef))]
  /\ UNCHANGED <<variant, API_SHARED_KEY, DEFAULT_EMAIL, files, arrivals>>

\* app.get("/healthz", (_req, res) => res.json({ ok: true }))
Healthz(r) ==
  /\ req[r].pc = "arrived"
  /\ IsHealthz(req[r])
  /\ req' = [req EXCEPT ![r] =
               Finish(Respond([@ EXCEPT !.gate = "exempt"], 200, "true", "absent", Undef))]
  /\ UNCHANGED <<variant, API_SHARED_KEY, DEFAULT_EMAIL, files, arrivals>>

\* The character U+2026 appended to the previews.
Ellipsis == "..."

\* The object logged on a mismatch: {gotLen, expLen, gotPreview, expPreview}.
MismatchLog(k, expected) ==
  [ gotLen |-> Len(k), expLen |-> Len(expected),
    gotPreview |-> Append(Slice0(k, 4), Ellipsis),
    expPreview |-> Append(Slice0(expected, 4), Ellipsis) ]

\* console.warn("[AUTH] Mismatch", {...}) of server.mjs; part_000 logs nothing.
LogMismatch(q) ==
  IF variant = "server"
  THEN [q EXCEPT !.log = Append(@, MismatchLog(Credential(q.headers),
                                               Expected(API_SHARED_KEY)))]
  ELSE q

\* app.use((req, res, next) => ...) of server.mjs and of part_000
AuthMiddleware(r) ==
  /\ variant \in JsonVariants
  /\ req[r].pc = "arrived"
  /\ ~IsHealthz(req[r])
  /\ LET q == req[r]
         allowed == IF q.path = "/healthz" THEN TRUE
                    ELSE IF variant = "server" THEN AuthAllows(q.headers, API_SHARED_KEY)
                    ELSE ApiKeyAllows(q.headers, API_SHARED_KEY)
     IN  req' = [req EXCEPT ![r] =
                   IF allowed
                   THEN [q EXCEPT !.pc = "next",
                                  !.gate = IF q.path = "/healthz" THEN "exempt" ELSE "allowed"]
                   ELSE Finish(Respond([LogMismatch(q) EXCEPT !.gate = "denied"],
                                       401, "false", "Unauthorized", Undef))]
  /\ UNCHANGED <<variant, API_SHARED_KEY, DEFAULT_EMAIL, files, arrivals>>

\* No route matches: express answers 404.
NotFound(r) ==
  /\ ~IsUpload(req[r])
  /\ \/ variant \in JsonVariants /\ req[r].pc = "next"
     \/ variant \in MultipartVariants /\ req[r].pc = "arrived" /\ ~IsHealthz(req[r])
  /\ req' = [req EXCEPT ![r] = Finish(Respond(@, 404, "absent", "absent", Undef))]
  /\ UNCHANGED <<variant, API_SHARED_KEY, DEFAULT_EMAIL, files, arrivals>>

\* ------------------------------------------------------------------------
\* POST /upload of the JSON variants: validation and temporary file
\* ------------------------------------------------------------------------

\* Mutant: only the audio payload is required.
MissingAudioOnly(b) == ~Truthy(b.audio)

\* if (!caregiverEmail || !audioB64)
MissingField(b) == ~Truthy(b.email) \/ ~Truthy(b.audio)

ValidationMessage ==
  IF variant = "server" THEN "audioB64 and caregiverEmail required"
  ELSE "audioBase64 and emailTo required"

\* The outer catch of the handler.
UnexpectedMessage ==
  IF variant = "server" THEN "Unexpected server error" ELSE "Transcription/email failed"

Validate(r) ==
  /\ variant \in JsonVariants
  /\ req[r].pc = "next"
  /\ IsUpload(req[r])
  /\ req' = [req EXCEPT ![r] =
               IF MissingField(@.body)
               THEN Finish(Respond(@, 400, "false", ValidationMessage, Undef))
               ELSE [@ EXCEPT !.pc = "store"]]
  /\ UNCHANGED <<variant, API_SHARED_KEY, DEFAULT_EMAIL, files, arrivals>>

\* What temp.openSync and fs.writeFileSync may do: both succeed, openSync fails
\* (nothing created), writeFileSync fails (the file openSync created stays).
StoreOutcomes == {"ok", "openFail", "writeFail"}

\* Buffer.from(base64, "base64") throws a TypeError for a payload that is not a
\* string, after temp.openSync has created the file.
DecodeThrows(q) == q.body.audio.t # "string"

\* Mutant: the path built from the file name alone, the same for every request.
TempPathByName(q) == 1

\* info.path of temp.openSync({prefix: "elder_", suffix: "_" + filename}): a name
\* no other file has (temp opens it with O_EXCL).
TempPath(q) == q.id

\* info.fd of temp.openSync: opened with the file, closed nowhere in the code
\* (fs.writeFileSync(info.path, ...) opens and closes a descriptor of its own).
OpenTemp(fds) == fds \cup {"temp"}

\* const tmpPath = await base64ToTempFile(audioB64, audioFileName)
Store(r) ==
  /\ variant \in JsonVariants
  /\ req[r].pc = "store"
  /\ \E o \in StoreOutcomes :
       LET q == req[r] IN
       /\ DecodeThrows(q) => o = "writeFail"
       /\ files' = IF o = "openFail" THEN files ELSE files \cup {TempPath(q)}
       /\ req' = [req EXCEPT ![r] =
                    IF o = "ok"
                    THEN [q EXCEPT !.pc = "transcribe", !.tmpPath = TempPath(q),
                                   !.fds = OpenTemp(@),
                                   !.trace = Append(@, "store")]
                    ELSE Finish(Respond([q EXCEPT !.trace = Append(@, "storeFailed"),
                                                  !.fds = IF o = "openFail" THEN @
                                                          ELSE OpenTemp(@)],
                                        500, "false", UnexpectedMessage, Undef))]
  /\ UNCHANGED <<variant, API_SHARED_KEY, DEFAULT_EMAIL, arrivals>>

\* ------------------------------------------------------------------------
\* POST /upload of the multipart variants: multer, auth in the handler
\* ------------------------------------------------------------------------

\* upload.single("audio"): the file part, when there is one, is written to uploads/
\* before the handler runs.
Multer(r) ==
  /\ variant \in MultipartVariants
  /\ req[r].pc = "arrived"
  /\ IsUpload(req[r])
  /\ LET q == req[r]
         hasFile == Truthy(q.body.audio)
     IN  /\ files' = IF hasFile THEN files \cup {q.id} ELSE files
         /\ req' = [req EXCEPT ![r] =
                      IF hasFile
                      THEN [q EXCEPT !.pc = "next", !.gate = "none", !.tmpPath = q.id,
                                     !.trace = Append(@, "store")]
                      ELSE [q EXCEPT !.pc = "next", !.gate = "none"]]
  /\ UNCHANGED <<variant, API_SHARED_KEY, DEFAULT_EMAIL, arrivals>>

\* if (!clientKey || clientKey !== API_SHARED_KEY) of the multipart variant:
\* TRUE when the request is let through.
ClientKeyAllows(h, key) == Truthy(h.xapi) /\ h.xapi = key

\* The head of the multipart handlers, up to the provider call.
UploadFile(r) ==
  /\ variant \in MultipartVariants
  /\ req[r].pc = "next"
  /\ LET q == req[r] IN
     req' = [req EXCEPT ![r] =
       IF variant = "multipart" /\ ~ClientKeyAllows(q.headers, API_SHARED_KEY)
       THEN Finish(Respond([q EXCEPT !.gate = "denied"], 401, "false", "Unauthorized", Undef))
       ELSE IF q.tmpPath = 0
       THEN IF variant = "multipart"
            THEN Finish(Respond([q EXCEPT !.gate = "allowed"],
                                400, "false", "No file uploaded", Undef))
            ELSE Finish(Respond(q, 400, "absent", "No audio uploaded", Undef))
       ELSE [q EXCEPT !.pc = "transcribe",
                      !.gate = IF variant = "multipart" THEN "allowed" ELSE "none"]]
  /\ UNCHANGED <<variant, API_SHARED_KEY, DEFAULT_EMAIL, files, arrivals>>

\* ------------------------------------------------------------------------
\* Transcription
\* ------------------------------------------------------------------------

\* r.text as the provider may return it: absent, empty, blank, padded text.
ProviderTexts == {Undef, Str(<<>>), Str(<<" ">>), Str(<<" ", "h", "i">>)}

\* The messages of the errors a provider call may fail with.
ProviderErrors == {"429 rate limit", "500 server error"}

\* What one provider call may settle to.
CallOutcomes ==
  [ok : {TRUE}, text : ProviderTexts, err : {"none"}]
    \cup
  [ok : {FALSE}, text : {Undef}, err : ProviderErrors]

PrimaryModel ==
  IF variant = "part_002" THEN "gpt-4o-mini-transcribe" ELSE "gpt-4o-transcribe"

SecondaryModel == "whisper-1"

\* The language parameter of a provider call: part_000 spreads
\* (language ? { language } : {}); no other variant reads the field.
CallLanguage(q) ==
  IF variant = "part_000" /\ Truthy(q.body.language) THEN q.body.language ELSE Undef

\* openai.audio.transcriptions.create({file: fs.createReadStream(path), model})
IssueCall(q, model) ==
  [q EXCEPT !.calls = Append(@, [model |-> model, language |-> CallLanguage(q),
                                 status |-> "pending", text |-> Undef, err |-> "none"]),
            !.fds = @ \cup {"stream"},
            !.trace = Append(@, "call")]

\* The pending call settles to outcome o, a text or an HTTP error status: the
\* provider has the whole upload, the read stream was read to its end and closed
\* itself (autoClose).
SettleCall(q, o) ==
  [q EXCEPT !.calls[Len(q.calls)] =
              [@ EXCEPT !.status = IF o.ok THEN "ok" ELSE "failed",
                        !.text = o.text, !.err = o.err],
            !.fds = @ \ {"stream"}]

\* (r?.text || "").trim()
TextOf(t) == Trim(IF Truthy(t) THEN t.s ELSE <<>>)

\* Mutant: no fallback, the primary's error is thrown.
TranscribePrimaryNoFallback(q, o) ==
  IF o.ok
  THEN [SettleCall(q, o) EXCEPT !.pc = "transcribed", !.returned = TextOf(o.text)]
  ELSE [SettleCall(q, o) EXCEPT !.pc = "transcribed", !.thrown = o.err]

\* transcribe(), from the primary call settling to its return or to the second call:
\* the primary's text is returned, a failure of the primary starts whisper-1.
TranscribePrimary(q, o) ==
  IF o.ok
  THEN [SettleCall(q, o) EXCEPT !.pc = "transcribed", !.returned = TextOf(o.text)]
  ELSE [IssueCall(SettleCall(q, o), SecondaryModel) EXCEPT !.pc = "awaitSecondary"]

\* transcribe(), from the whisper-1 call settling: its text is returned, its error
\* is the one transcribe() rejects with.
TranscribeSecondary(q, o) ==
  IF o.ok
  THEN [SettleCall(q, o) EXCEPT !.pc = "transcribed", !.returned = TextOf(o.text)]
  ELSE [SettleCall(q, o) EXCEPT !.pc = "transcribed", !.thrown = o.err]

\* Mutant: the empty transcript is kept.
KeepEmpty(s) == s

\* if (!transcriptText) transcriptText = "(empty transcript)"
OrPlaceholder(s) == IF s = <<>> THEN EmptyTranscript ELSE s

\* Mutant: the catch answers 500 without returning; the handler goes on.
AfterTranscribeNoReturn(q) ==
  IF q.thrown = "none"
  THEN [q EXCEPT !.pc = "compose", !.transcriptText = Str(OrPlaceholder(q.returned))]
  ELSE [Respond(q, 500, "false", "Transcription failed", Undef) EXCEPT !.pc = "compose"]

\* Mutant: no catch around the await; the rejection ends the handler unanswered.
AfterTranscribeNoCatch(q) ==
  IF q.thrown = "none"
  THEN [q EXCEPT !.pc = "compose", !.transcriptText = Str(OrPlaceholder(q.returned))]
  ELSE [q EXCEPT !.pc = "rejected"]

\* The handler after `await transcribe(tmpPath)` of server.mjs: the placeholder, or
\* the catch that answers 500 "Transcription failed".
AfterTranscribe(q) ==
  IF q.thrown = "none"
  THEN [q EXCEPT !.pc = "compose", !.transcriptText = Str(OrPlaceholder(q.returned))]
  ELSE Finish(Respond(q, 500, "false", "Transcription failed", Undef))

\* The message of the error the multipart variant throws for a failed call.
FetchMessage(err) ==
  IF err = "429 rate limit" THEN "OpenAI API error: 429" ELSE "OpenAI API error: 500"

\* The single provider call of the other variants settles:
\*   part_000   (tr?.text || "").trim() || "(empty transcript)"; a failure reaches the
\*              outer catch
\*   multipart  data.text || "(No transcript returned)"; a failure throws, catch
\*              answers err.message
\*   part_002   transcription.text as it is; catch answers {error: err.message}
SingleCall(q, o) ==
  LET c == SettleCall(q, o) IN
  CASE variant = "part_000" ->
         IF o.ok
         THEN [c EXCEPT !.pc = "compose", !.returned = TextOf(o.text),
                        !.transcriptText = Str(OrPlaceholder(TextOf(o.text)))]
         ELSE Finish(Respond([c EXCEPT !.thrown = o.err],
                             500, "false", "Transcription/email failed", Undef))
    [] variant = "multipart" ->
         IF o.ok
         THEN [c EXCEPT !.pc = "compose",
                        !.transcriptText =
                           IF Truthy(o.text) THEN o.text ELSE Str(NoTranscriptReturned)]
         ELSE Finish(Respond([c EXCEPT !.thrown = FetchMessage(o.err)],
                             500, "false", FetchMessage(o.err), Undef))
    [] OTHER ->
         IF o.ok
         THEN [c EXCEPT !.pc = "compose", !.transcriptText = o.text]
         ELSE Finish(Respond([c EXCEPT !.thrown = o.err], 500, "absent", o.err, Undef))

\* The handler reaches its provider call: the read stream is opened, the call issued.
CallProvider(r) ==
  /\ req[r].pc = "transcribe"
  /\ req' = [req EXCEPT ![r] = [IssueCall(@, PrimaryModel) EXCEPT !.pc = "awaitPrimary"]]
  /\ UNCHANGED <<variant, API_SHARED_KEY, DEFAULT_EMAIL, files, arrivals>>

\* The first provider call settles.
PrimaryReturns(r) ==
  /\ req[r].pc = "awaitPrimary"
  /\ \E o \in CallOutcomes :
       req' = [req EXCEPT ![r] =
                 IF variant = "server"
                 THEN LET t == TranscribePrimary(@, o)
                      IN  IF t.pc = "transcribed" THEN AfterTranscribe(t) ELSE t
                 ELSE SingleCall(@, o)]
  /\ UNCHANGED <<variant, API_SHARED_KEY, DEFAULT_EMAIL, files, arrivals>>

\* The whisper-1 call settles.
SecondaryReturns(r) ==
  /\ req[r].pc = "awaitSecondary"
  /\ \E o \in CallOutcomes :
       req' = [req EXCEPT ![r] = AfterTranscribe(TranscribeSecondary(@, o))]
  /\ UNCHANGED <<variant, API_SHARED_KEY, DEFAULT_EMAIL, files, arrivals>>

\* ------------------------------------------------------------------------
\* E-mail, cleanup, response
\* ------------------------------------------------------------------------

\* err.message of a rejected sendMail and of a failed fs.unlinkSync.
MailError == "Invalid login"

UnlinkError == "ENOENT: no such file or directory, unlink"

Newline == "\n"

\* audioFileName = "interview.m4a" | filename = "audio.m4a" of the destructuring:
\* the default replaces undefined only.
FileNameOf(q) ==
  IF q.body.fileName.t # "undefined" THEN q.body.fileName
  ELSE IF variant = "server" THEN Str(DefaultAudioFileName)
  ELSE Str(DefaultFilename)

\* [...].filter(Boolean) of the three header lines.
HeaderLineList(q) ==
  (IF Truthy(q.body.elderName) THEN <<ElderLabel \o q.body.elderName.s>> ELSE <<>>)
    \o (IF Truthy(q.body.replyDisplayName)
        THEN <<RecorderLabel \o q.body.replyDisplayName.s>> ELSE <<>>)
    \o (IF Truthy(FileNameOf(q)) THEN <<FileLabel \o FileNameOf(q).s>> ELSE <<>>)

RECURSIVE Join(_, _)
\* lines.join(sep)
Join(lines, sep) ==
  IF lines = <<>> THEN <<>>
  ELSE IF Len(lines) = 1 THEN lines[1]
  ELSE lines[1] \o <<sep>> \o Join(Tail(lines), sep)

\* (headerLines ? headerLines + "\n\n" : "") + transcriptText
EmailBody(q) ==
  LET headerLines == Join(HeaderLineList(q), Newline) IN
  (IF headerLines # <<>> THEN headerLines \o <<Newline, Newline>> ELSE <<>>)
    \o q.transcriptText.s

\* s.replace(/\.[^/.]+$/, ""): the extension after the last dot is cut, unless it
\* is empty or holds a slash.
StripExtension(s) ==
  LET dots == {i \in 1..Len(s) : s[i] = "."} IN
  IF dots = {} THEN s
  ELSE LET d == CHOOSE i \in dots : \A j \in dots : j <= i IN
       IF d < Len(s) /\ \A j \in (d + 1)..Len(s) : s[j] # "/"
       THEN SubSeq(s, 1, d - 1)
       ELSE s

\* filename of the attachment: (audioFileName.replace(...) || "transcript") + ".txt"
\* in server.mjs, (filename || "transcript") + ".txt" in part_000.
AttachmentName(q) ==
  LET f == FileNameOf(q)
      base == IF ~Truthy(f) THEN <<>>
              ELSE IF variant = "server" THEN StripExtension(f.s)
              ELSE f.s
  IN  (IF base = <<>> THEN TranscriptName ELSE base) \o TxtSuffix

\* Mutant: cc and bcc passed on as they were given.
AsGiven(v) == v

\* ccEmail || undefined
OrUndefined(v) == IF Truthy(v) THEN v ELSE Undef

NoAttachment == [filename |-> Undef, content |-> Undef]

\* The object handed to transporter.sendMail, without `from` and `subject`: the
\* JSON variants send header lines, transcript and a .txt attachment, the
\* multipart variants the transcript alone.
Message(q, to) ==
  IF variant \in JsonVariants
  THEN [ to |-> to,
         cc |-> OrUndefined(q.body.cc),
         bcc |-> OrUndefined(q.body.bcc),
         text |-> Str(EmailBody(q)),
         attachment |-> [filename |-> Str(AttachmentName(q)),
                         content |-> Str(EmailBody(q))] ]
  ELSE [ to |-> to, cc |-> Undef, bcc |-> Undef, text |-> q.transcriptText,
         attachment |-> NoAttachment ]

\* transporter.sendMail({to, ..., text}) is called.
IssueMail(q, to) ==
  LET m == Message(q, to) IN
  [q EXCEPT !.pc = "awaitSend",
            !.mails = Append(@, [to |-> m.to, cc |-> m.cc, bcc |-> m.bcc,
                                 text |-> m.text, attachment |-> m.attachment,
                                 transcript |-> q.transcriptText,
                                 status |-> "pending"]),
            !.trace = Append(@, "send")]

\* The pending sendMail settles.
SettleMail(q, accepted) ==
  [q EXCEPT !.mails[Len(q.mails)].status = IF accepted THEN "accepted" ELSE "rejected"]

\* fs.unlinkSync(path) is called; it removes the file or throws.
Unlink(q, removed) ==
  [q EXCEPT !.trace = Append(@, IF removed THEN "unlink" ELSE "unlinkFailed")]

\* A segment's result: the request record and whether its file was removed.
Out(q, removed) == [q |-> q, removed |-> removed]

\* to: caregiverEmail || DEFAULT_EMAIL (part_002), req.body.to || DEFAULT_TO ||
\* SMTP_USER (multipart), the validated address (JSON variants).
Recipient(q) ==
  IF variant \in MultipartVariants /\ ~Truthy(q.body.email) THEN DEFAULT_EMAIL
  ELSE q.body.email

\* audioFileName.replace(...) throws a TypeError when audioFileName is null (the
\* default only replaces undefined).
ComposeThrows(q) == variant = "server" /\ q.body.fileName.t = "null"

\* From the transcript to the sendMail call.
\*   server    the message is built inside the try of sendMail: a throw is answered
\*             by its catch (500 "Email send failed") and followed by its finally
\*   part_002  without a recipient no mail is sent: res.json({ok: true, transcript}),
\*             then fs.unlinkSync, whose throw reaches the catch
Compose(q, unlinked) ==
  IF ComposeThrows(q)
  THEN Out(Finish(Unlink(Respond(q, 500, "false", "Email send failed", Undef), unlinked)),
           unlinked)
  ELSE IF variant = "part_002" /\ ~Truthy(Recipient(q))
  THEN LET a == Unlink(Respond(q, 200, "true", "absent", q.transcriptText), unlinked)
       IN  IF unlinked THEN Out(Finish(a), TRUE)
           ELSE Out(Finish(Respond(a, 500, "absent", UnlinkError, Undef)), FALSE)
  ELSE Out(IssueMail(q, Recipient(q)), FALSE)

\* Mutant: the unlink after the try instead of in a finally, skipped by the
\* return of the catch.
ServerAfterSendNoFinally(q, accepted, unlinked) ==
  LET m == SettleMail(q, accepted) IN
  IF accepted
  THEN Out(Finish(Respond(Unlink(m, unlinked), 200, "true", "absent", q.transcriptText)),
           unlinked)
  ELSE Out(Finish(Respond(m, 500, "false", "Email send failed", Undef)), FALSE)

\* server.mjs after sendMail settles: catch answers 500 "Email send failed", finally
\* unlinks (its failure swallowed), then the success response.
ServerAfterSend(q, accepted, unlinked) ==
  LET m == SettleMail(q, accepted) IN
  IF accepted
  THEN Out(Finish(Respond(Unlink(m, unlinked), 200, "true", "absent", q.transcriptText)),
           unlinked)
  ELSE Out(Finish(Unlink(Respond(m, 500, "false", "Email send failed", Undef), unlinked)),
           unlinked)

\* part_000 after sendMail settles: unlink (failure swallowed) and success, or the
\* outer catch, which does not unlink.
Part000AfterSend(q, accepted, unlinked) ==
  LET m == SettleMail(q, accepted) IN
  IF accepted
  THEN Out(Finish(Respond(Unlink(m, unlinked), 200, "true", "absent", q.transcriptText)),
           unlinked)
  ELSE Out(Finish(Respond(m, 500, "false", "Transcription/email failed", Undef)), FALSE)

\* The multipart variant after sendMail settles: fs.unlinkSync unguarded, then
\* res.json({ok: true, transcript}); catch answers {ok: false, error: err.message}.
MultipartAfterSend(q, accepted, unlinked) ==
  LET m == SettleMail(q, accepted) IN
  IF ~accepted
  THEN Out(Finish(Respond(m, 500, "false", MailError, Undef)), FALSE)
  ELSE IF unlinked
  THEN Out(Finish(Respond(Unlink(m, TRUE), 200, "true", "absent", q.transcriptText)), TRUE)
  ELSE Out(Finish(Respond(Unlink(m, FALSE), 500, "false", UnlinkError, Undef)), FALSE)

\* part_002 after sendMail settles: res.json({ok: true, transcript}), then
\* fs.unlinkSync; catch calls res.status(500).json({error: err.message}).
Part002AfterSend(q, accepted, unlinked) ==
  LET m == SettleMail(q, accepted) IN
  IF ~accepted
  THEN Out(Finish(Respond(m, 500, "absent", MailError, Undef)), FALSE)
  ELSE LET a == Unlink(Respond(m, 200, "true", "absent", q.transcriptText), unlinked)
       IN  IF unlinked THEN Out(Finish(a), TRUE)
           ELSE Out(Finish(Respond(a, 500, "absent", UnlinkError, Undef)), FALSE)

AfterSend(q, accepted, unlinked) ==
  CASE variant = "server" -> ServerAfterSend(q, accepted, unlinked)
    [] variant = "part_000" -> Part000AfterSend(q, accepted, unlinked)
    [] variant = "multipart" -> MultipartAfterSend(q, accepted, unlinked)
    [] OTHER -> Part002AfterSend(q, accepted, unlinked)

\* The handler composes the message and calls sendMail.
ComposeAndSend(r) ==
  /\ req[r].pc = "compose"
  /\ \E unlinked \in BOOLEAN :
       LET o == Compose(req[r], unlinked) IN
       /\ req' = [req EXCEPT ![r] = o.q]
       /\ files' = IF o.removed THEN files \ {req[r].tmpPath} ELSE files
  /\ UNCHANGED <<variant, API_SHARED_KEY, DEFAULT_EMAIL, arrivals>>

\* sendMail settles (a message without recipient is always rejected); the handler
\* runs to its end.
SendReturns(r) ==
  /\ req[r].pc = "awaitSend"
  /\ \E accepted \in BOOLEAN, unlinked \in BOOLEAN :
       /\ accepted => Truthy(req[r].mails[Len(req[r].mails)].to)
       /\ LET o == AfterSend(req[r], accepted, unlinked) IN
          /\ req' = [req EXCEPT ![r] = o.q]
          /\ files' = IF o.removed THEN files \ {req[r].tmpPath} ELSE files
  /\ UNCHANGED <<variant, API_SHARED_KEY, DEFAULT_EMAIL, arrivals>>

\* ------------------------------------------------------------------------
\* Specification
\* ------------------------------------------------------------------------

Next ==
  \E r \in Reqs :
    \/ Arrive(r)
    \/ Healthz(r)
    \/ AuthMiddleware(r)
    \/ NotFound(r)
    \/ Validate(r)
    \/ Store(r)
    \/ Multer(r)
    \/ UploadFile(r)
    \/ CallProvider(r)
    \/ PrimaryReturns(r)
    \/ SecondaryReturns(r)
    \/ ComposeAndSend(r)
    \/ SendReturns(r)

Spec == Init /\ [][Next]_vars

\* src/server.mjs alone, with the scheduling of Node: a continuation that is ready
\* runs, and a pending provider or mail call settles.
ServerInit == Init /\ variant = "server"

\* The steps of the POST /upload handler of request r.
Handle(r) ==
  \/ Validate(r)
  \/ Store(r)
  \/ CallProvider(r)
  \/ PrimaryReturns(r)
  \/ SecondaryReturns(r)
  \/ ComposeAndSend(r)
  \/ SendReturns(r)

ServerNext ==
  \E r \in Reqs :
    \/ Arrive(r)
    \/ Healthz(r)
    \/ AuthMiddleware(r)
    \/ NotFound(r)
    \/ Handle(r)

LiveSpec ==
  ServerInit /\ [][ServerNext]_vars /\ \A r \in Reqs : WF_vars(Handle(r))

\* src/server.mjs with requests in flight in every slot at once, their handler
\* segments interleaved at the awaits.
ConcurrentInputs ==
  [ method : {"POST"}, path : {"/upload"},
    headers : {[NoHeaders EXCEPT !.xshared = Str(Secret)]},
    body : [ email : {Str(Address)}, audio : {Str(AudioB64)},
             fileName : {Undef, Null}, language : {Undef},
             elderName : {Undef}, replyDisplayName : {Undef},
             cc : {Undef}, bcc : {Undef} ] ]

\* A POST /upload request reaches the app while others may be in flight.
ArriveConcurrent(r) ==
  /\ req[r].pc \in {"idle", "done"}
  /\ arrivals < MaxArrivals
  /\ \E i \in ConcurrentInputs :
       req' = [req EXCEPT ![r] =
                 [IdleReq EXCEPT !.pc = "arrived", !.id = arrivals + 1,
                                 !.method = i.method, !.path = i.path,
                                 !.headers = i.headers, !.body = i.body]]
  /\ arrivals' = arrivals + 1
  /\ UNCHANGED <<variant, API_SHARED_KEY, DEFAULT_EMAIL, files>>

ConcurrentNext ==
  \E r \in Slots :
    \/ ArriveConcurrent(r)
    \/ AuthMiddleware(r)
    \/ Handle(r)

ConcurrentSpec == ServerInit /\ [][ConcurrentNext]_vars

\* src/server.mjs without a secret, fed valid uploads that vary the fields the
\* message is composed from.
ComposeInputs ==
  [ method : {"POST"}, path : {"/upload"}, headers : {NoHeaders},
    body : [ email : {Str(Address)}, audio : {Str(AudioB64)},
             fileName : {Undef, Str(<<>>), Str(FileName)}, language : {Undef},
             elderName : {Undef, Str(<<"E">>)},
             replyDisplayName : {Undef, Str(<<"R">>)},
             cc : {Undef, Str(<<>>), Str(Copy)},
             bcc : {Undef, Str(Copy)} ] ]

ArriveCompose(r) ==
  /\ req[r].pc \in {"idle", "done"}
  /\ arrivals < MaxArrivals
  /\ \E i \in ComposeInputs :
       req' = [req EXCEPT ![r] =
                 [IdleReq EXCEPT !.pc = "arrived", !.id = arrivals + 1,
                                 !.method = i.method, !.path = i.path,
                                 !.headers = i.headers, !.body = i.body]]
  /\ arrivals' = arrivals + 1
  /\ UNCHANGED <<variant, API_SHARED_KEY, DEFAULT_EMAIL, files>>

ComposeInit == ServerInit /\ API_SHARED_KEY = Undef

ComposeNext ==
  \E r \in Reqs :
    \/ ArriveCompose(r)
    \/ AuthMiddleware(r)
    \/ Handle(r)

ComposeSpec == ComposeInit /\ [][ComposeNext]_vars

\* ------------------------------------------------------------------------
\* Properties
\* ------------------------------------------------------------------------

Count(seq, e) == Cardinality({i \in 1..Len(seq) : seq[i] = e})

\* fs.unlinkSync calls of a request, failed ones included.
Unlinks(q) == Count(q.trace, "unlink") + Count(q.trace, "unlinkFailed")

\* The request's file is on disk.
FileExists(q) == TempPath(q) \in files

\* The request made no storage, transcription or e-mail side effect.
NoSideEffect(q) ==
  /\ q.tmpPath = 0
  /\ ~FileExists(q)
  /\ q.calls = <<>>
  /\ q.mails = <<>>
  /\ \A i \in 1..Len(q.trace) : q.trace[i] = "respond"

\* The request got exactly this failure (or health) response, without transcript.
Answered(q, status, ok, error) == q.resp = <<Response(status, ok, error, Undef)>>

\* POST /upload got a success response.
Succeeded(q) == IsUpload(q) /\ \E i \in 1..Len(q.resp) : q.resp[i].ok = "true"

BothModelsFailed(q) ==
  /\ Len(q.calls) = 2
  /\ q.calls[1].status = "failed"
  /\ q.calls[2].status = "failed"

\* C1: as deployed from src/server.mjs, every finished POST /upload request that
\* stored its temporary file has called fs.unlinkSync on it exactly once, whatever
\* the exit path (success, transcription failure, e-mail failure, unexpected error).
C1_ReleasedExactlyOnce ==
  \A r \in Reqs :
    (variant = "server" /\ req[r].pc = "done" /\ req[r].tmpPath # 0)
      => Unlinks(req[r]) = 1

\* C2: in the JSON variants a POST /upload request that reached the handler with
\* caregiverEmail or audioB64 missing or empty is answered 400 {ok: false, error}
\* by the handler's first step, and it never creates a file, calls the provider
\* or sends a mail.
C2_ValidationRejects ==
  \A r \in Reqs :
    LET q == req[r] IN
    ( /\ variant \in JsonVariants
      /\ IsUpload(q)
      /\ q.gate = "allowed"
      /\ ~Truthy(q.body.email) \/ ~Truthy(q.body.audio) )
      => /\ NoSideEffect(q)
         /\ q.pc \in {"next", "done"}
         /\ q.pc = "done" => /\ Len(q.resp) = 1
                             /\ q.resp[1].status = 400
                             /\ q.resp[1].ok = "false"
                             /\ q.resp[1].error # "absent"
                             /\ q.resp[1].transcript = Undef

C2_Witness ==
  \E r \in Reqs :
    /\ variant = "server"
    /\ req[r].pc = "done"
    /\ Truthy(req[r].body.audio)
    /\ ~Truthy(req[r].body.email)
    /\ Answered(req[r], 400, "false", "audioB64 and caregiverEmail required")

\* A shared secret is configured: API_SHARED_KEY is set and not blank.
SecretConfigured ==
  API_SHARED_KEY.t = "string" /\ \E i \in 1..Len(API_SHARED_KEY.s) : ~IsSpace(API_SHARED_KEY.s[i])

\* C3: in src/server.mjs, when a shared secret is configured, a request to a path
\* other than /healthz whose trimmed credential is empty or differs from the
\* trimmed secret is answered 401 {ok: false, error: "Unauthorized"} by the
\* middleware and nothing else happens for it: no other response, no file, no
\* provider call, no mail.
C3_MismatchIs401 ==
  \A r \in Reqs :
    LET q == req[r] IN
    ( /\ variant = "server"
      /\ SecretConfigured
      /\ q.pc \notin {"idle", "arrived"}
      /\ q.path # "/healthz"
      /\ Trim(HeaderKey(q.headers)) # Trim(API_SHARED_KEY.s) )
      => /\ q.pc = "done"
         /\ q.gate = "denied"
         /\ Answered(q, 401, "false", "Unauthorized")
         /\ NoSideEffect(q)

C3_Witness ==
  \E r \in Reqs :
    /\ variant = "server"
    /\ API_SHARED_KEY = Str(SecretPadded)
    /\ IsUpload(req[r])
    /\ req[r].headers.xshared = Str(Wrong)
    /\ Truthy(req[r].body.email) /\ Truthy(req[r].body.audio)
    /\ Answered(req[r], 401, "false", "Unauthorized")

\* C4: a POST /upload request has a response with ok: true only if it made exactly
\* one sendMail attempt and the transport accepted it; sendMail is never attempted
\* twice for one request.
C4_SuccessOnlyAfterAcceptedSend ==
  \A r \in Reqs :
    /\ Len(req[r].mails) <= 1
    /\ Succeeded(req[r])
         => Len(req[r].mails) = 1 /\ req[r].mails[1].status = "accepted"

\* C5: in src/server.mjs, when the primary and the fallback model both failed, the
\* finished request was answered 500 "Transcription failed", no mail was sent and
\* its temporary file is gone.
C5_TranscriptionFailureCleansUp ==
  \A r \in Reqs :
    (variant = "server" /\ req[r].pc = "done" /\ BothModelsFailed(req[r]))
      => /\ Answered(req[r], 500, "false", "Transcription failed")
         /\ req[r].mails = <<>>
         /\ ~FileExists(req[r])

\* C6: in src/server.mjs, when the transcription succeeded and the mail transport
\* rejected the send, the finished request was answered 500 "Email send failed"
\* with no transcript in the body, and its temporary file was unlinked: exactly
\* one fs.unlinkSync call, after which the file is gone unless that call failed.
C6_EmailFailureCleansUp ==
  \A r \in Reqs :
    LET q == req[r] IN
    ( /\ variant = "server"
      /\ q.pc = "done"
      /\ q.mails # <<>>
      /\ q.mails[1].status = "rejected" )
      => /\ q.thrown = "none"
         /\ Answered(q, 500, "false", "Email send failed")
         /\ Unlinks(q) = 1
         /\ Count(q.trace, "unlink") = 1 => ~FileExists(q)
         /\ Count(q.trace, "unlinkFailed") = 1 => FileExists(q)

C6_Witness ==
  \E r \in Reqs :
    /\ variant = "server"
    /\ req[r].pc = "done"
    /\ Len(req[r].mails) = 1
    /\ req[r].mails[1].status = "rejected"
    /\ req[r].transcriptText = Str(<<"h", "i">>)
    /\ Answered(req[r], 500, "false", "Email send failed")
    /\ ~FileExists(req[r])

\* The provider text t is absent, empty or only whitespace.
Blank(t) == t.t # "string" \/ \A i \in 1..Len(t.s) : IsSpace(t.s[i])

\* C7: transcribe() of src/server.mjs (and of its twin in part_001) calls
\* gpt-4o-transcribe first; whisper-1 is called if and only if that call failed,
\* and once, so there are at most two provider calls per request. When the primary
\* succeeds its trimmed text is returned and no second call is made; when both
\* fail, transcribe() fails with the error of the whisper-1 call.
C7_ModelFallback ==
  \A r \in Reqs :
    LET q == req[r]
        c == q.calls
    IN  variant = "server" =>
          /\ Len(c) <= 2
          /\ Len(c) >= 1 => c[1].model = "gpt-4o-transcribe"
          /\ Len(c) = 2 => c[2].model = "whisper-1" /\ c[1].status = "failed"
          /\ (Len(c) >= 1 /\ c[1].status = "failed") => Len(c) = 2
          /\ (Len(c) >= 1 /\ c[1].status = "ok")
               => q.thrown = "none" /\ q.returned = TextOf(c[1].text)
          /\ (Len(c) = 2 /\ c[2].status = "ok")
               => q.thrown = "none" /\ q.returned = TextOf(c[2].text)
          /\ BothModelsFailed(q) => q.thrown = c[2].err
          /\ q.thrown # "none" => BothModelsFailed(q)

C7_Witness ==
  \E r \in Reqs :
    /\ variant = "server"
    /\ BothModelsFailed(req[r])
    /\ req[r].calls[1].err # req[r].calls[2].err
    /\ req[r].thrown = req[r].calls[2].err

\* C8: in src/server.mjs a provider call that succeeds with absent, empty or blank
\* text is not a failure: the transcript becomes "(empty transcript)", the request
\* is never answered "Transcription failed", the mail is sent with the placeholder
\* (unless building the message threw on a null audioFileName) and an accepted
\* send is answered with success and the placeholder. Every mail and every success
\* response carries a non-empty transcript.
C8_EmptyTranscriptPlaceholder ==
  \A r \in Reqs :
    LET q == req[r]
        n == Len(q.calls)
    IN  variant = "server" =>
          /\ \A i \in 1..Len(q.mails) :
               q.mails[i].transcript.t = "string" /\ q.mails[i].transcript.s # <<>>
          /\ \A i \in 1..Len(q.resp) :
               (IsUpload(q) /\ q.resp[i].ok = "true")
                 => q.resp[i].transcript.t = "string" /\ q.resp[i].transcript.s # <<>>
          /\ (n >= 1 /\ q.calls[n].status = "ok" /\ Blank(q.calls[n].text))
               => /\ q.transcriptText = Str(EmptyTranscript)
                  /\ q.pc \in {"compose", "awaitSend", "done"}
                  /\ \A i \in 1..Len(q.resp) : q.resp[i].error # "Transcription failed"
                  /\ q.pc \in {"awaitSend", "done"}
                       => \/ /\ Len(q.mails) = 1
                             /\ q.mails[1].transcript = Str(EmptyTranscript)
                          \/ /\ q.body.fileName = Null
                             /\ Answered(q, 500, "false", "Email send failed")
                  /\ (q.pc = "done" /\ q.mails # <<>> /\ q.mails[1].status = "accepted")
                       => q.resp = <<Response(200, "true", "absent", Str(EmptyTranscript))>>

C8_Witness ==
  \E r \in Reqs :
    /\ variant = "server"
    /\ req[r].pc = "done"
    /\ Len(req[r].calls) = 1
    /\ req[r].calls[1].text = Str(<<" ">>)
    /\ Len(req[r].mails) = 1
    /\ req[r].mails[1].status = "accepted"
    /\ req[r].resp = <<Response(200, "true", "absent", Str(EmptyTranscript))>>

\* C9: the auth gate (the middleware of src/server.mjs, the check at the head of
\* the multipart handler) lets a request to a non-health path through whenever no
\* secret is configured, and whenever its trimmed credential equals the trimmed
\* secret.
C9_GateAllows ==
  \A r \in Reqs :
    LET q == req[r] IN
    ( /\ variant \in {"server", "multipart"}
      /\ q.path # "/healthz"
      /\ q.gate \in {"allowed", "denied"}
      /\ \/ ~SecretConfigured
         \/ /\ Trim(HeaderKey(q.headers)) # <<>>
            /\ Trim(HeaderKey(q.headers)) = Trim(API_SHARED_KEY.s) )
      => q.gate = "allowed" /\ (q.pc = "done" => ~Answered(q, 401, "false", "Unauthorized"))

\* C10: GET /healthz is answered 200 {ok: true} whatever headers the request
\* carries and whatever API_SHARED_KEY is, and has no storage, transcription or
\* e-mail side effect.
C10_HealthzAlwaysOk ==
  \A r \in Reqs :
    LET q == req[r] IN
    (IsHealthz(q) /\ q.pc \notin {"idle", "arrived"})
      => /\ q.pc = "done"
         /\ Answered(q, 200, "true", "absent")
         /\ NoSideEffect(q)

C10_Witness ==
  \E r \in Reqs :
    /\ variant = "server"
    /\ SecretConfigured
    /\ IsHealthz(req[r])
    /\ req[r].headers.xshared = Str(Wrong)
    /\ Answered(req[r], 200, "true", "absent")

\* C11: in src/server.mjs, when storing the audio payload failed, the finished
\* request was answered 500 "Unexpected server error", no provider call and no
\* mail were made, and no temporary file of the request is on disk.
C11_StoreFailureLeavesNothing ==
  \A r \in Reqs :
    LET q == req[r] IN
    (variant = "server" /\ q.pc = "done" /\ Count(q.trace, "storeFailed") = 1)
      => /\ Answered(q, 500, "false", "Unexpected server error")
         /\ q.calls = <<>>
         /\ q.mails = <<>>
         /\ ~FileExists(q)

\* The first non-empty value among x-shared-key, x-api-key and Authorization
\* without its Bearer prefix.
FirstNonEmpty(h) ==
  IF Truthy(h.xshared) THEN h.xshared.s
  ELSE IF Truthy(h.xapi) THEN h.xapi.s
  ELSE IF Truthy(h.authorization) THEN StripBearer(h.authorization.s)
  ELSE <<>>

\* C12: in src/server.mjs, with a secret configured, a request to a non-health
\* path whose first non-empty credential header (shared-key, then API-key, then
\* Authorization without Bearer) carries the secret is let through by the gate,
\* also when a header of higher priority is present but empty.
C12_FirstNonEmptyWins ==
  \A r \in Reqs :
    LET q == req[r] IN
    ( /\ variant = "server"
      /\ SecretConfigured
      /\ q.path # "/healthz"
      /\ q.gate \in {"allowed", "denied"}
      /\ Trim(FirstNonEmpty(q.headers)) = Trim(API_SHARED_KEY.s) )
      => q.gate = "allowed"

\* C13: in src/server.mjs, the multipart variant and part_002, a failed
\* fs.unlinkSync is never surfaced and never changes the response: the finished
\* request has exactly one response, which does not carry the unlink error, and
\* which is the success response when the mail was accepted.
C13_DeleteFailureSilent ==
  \A r \in Reqs :
    LET q == req[r] IN
    ( /\ variant \in {"server", "multipart", "part_002"}
      /\ q.pc = "done"
      /\ Count(q.trace, "unlinkFailed") >= 1 )
      => /\ Len(q.resp) = 1
         /\ q.resp[1].error # UnlinkError
         /\ (q.mails # <<>> /\ q.mails[1].status = "accepted")
              => q.resp[1].status = 200 /\ q.resp[1].ok = "true"

\* The constant error strings of the failure responses.
FailureMessages ==
  { "Unauthorized", "audioB64 and caregiverEmail required", "No file uploaded",
    "No audio uploaded", "Transcription failed", "Email send failed",
    "Unexpected server error" }

\* C14: in src/server.mjs, the multipart variant and part_002, every failure
\* response to POST /upload has the body {ok: false, error} with error one of the
\* constant strings; it never carries the message of an internal exception.
C14_FailureBodiesStable ==
  \A r \in Reqs :
    LET q == req[r] IN
    (variant \in {"server", "multipart", "part_002"} /\ IsUpload(q))
      => \A i \in 1..Len(q.resp) :
           q.resp[i].status >= 400
             => q.resp[i].ok = "false" /\ q.resp[i].error \in FailureMessages

\* C15: in src/server.mjs and part_000, every provider call of a request that
\* supplied a language carries that language unchanged, and every provider call
\* of a request that supplied none carries no language parameter.
C15_LanguageForwarded ==
  \A r \in Reqs :
    LET q == req[r] IN
    variant \in {"server", "part_000"}
      => \A i \in 1..Len(q.calls) :
           q.calls[i].language =
             IF q.body.language.t = "undefined" THEN Undef ELSE q.body.language

\* Position of the first occurrence of e in seq, Len(seq) + 1 when there is none.
First(seq, e) ==
  IF \E i \in 1..Len(seq) : seq[i] = e
  THEN CHOOSE i \in 1..Len(seq) : seq[i] = e /\ \A j \in 1..(i - 1) : seq[j] # e
  ELSE Len(seq) + 1

\* C16: in src/server.mjs, for a finished request that stored a file and attempted
\* the send, fs.unlinkSync removed the file before the response was written, on
\* the success path and on the e-mail failure path alike.
C16_UnlinkBeforeResponse ==
  \A r \in Reqs :
    LET q == req[r] IN
    ( /\ variant = "server"
      /\ q.pc = "done"
      /\ q.tmpPath # 0
      /\ q.mails # <<>>
      /\ Count(q.trace, "unlink") = 1 )
      => First(q.trace, "unlink") < First(q.trace, "respond")

\* C19: in src/server.mjs composing never fails: a finished request whose
\* transcription succeeded made exactly one sendMail attempt whatever its
\* audioFileName, and was answered "Email send failed" only if the transport
\* rejected that attempt.
C19_ComposingNeverFails ==
  \A r \in Reqs :
    LET q == req[r] IN
    ( /\ variant = "server"
      /\ q.pc = "done"
      /\ q.transcriptText # Undef )
      => /\ Len(q.mails) = 1
         /\ Answered(q, 500, "false", "Email send failed")
              => q.mails[1].status = "rejected"

\* Stage of a side effect: store, provider call, send.
Stage(e) == CASE e = "store" -> 1 [] e = "call" -> 2 [] e = "send" -> 3 [] OTHER -> 0

\* C17: in src/server.mjs the stages of a request occur in the order validate,
\* store, transcribe, compose, send: a file is stored only for a valid body, a
\* provider call is made only after the store succeeded, sendMail is called only
\* after a provider call succeeded, and after a response was chosen or the store
\* failed the request stores nothing, calls no provider and sends no mail.
C17_StagesInOrder ==
  \A r \in Reqs :
    LET q == req[r]
        tr == q.trace
    IN  variant = "server" =>
          /\ \A i, j \in 1..Len(tr) :
               (i < j /\ Stage(tr[j]) > 0)
                 => /\ Stage(tr[i]) > 0
                    /\ Stage(tr[i]) <= Stage(tr[j])
          /\ Count(tr, "store") <= 1
          /\ Count(tr, "store") = 1
               => Truthy(q.body.email) /\ Truthy(q.body.audio) /\ q.tmpPath # 0
          /\ q.calls # <<>> => Count(tr, "store") = 1
          /\ Count(tr, "call") = Len(q.calls)
          /\ Count(tr, "send") = Len(q.mails)
          /\ q.mails # <<>>
               => /\ Len(q.mails) = 1
                  /\ q.calls # <<>>
                  /\ q.calls[Len(q.calls)].status = "ok"
                  /\ q.thrown = "none"
          /\ q.pc = "done" => q.resp # <<>>

C17_Witness ==
  \E r \in Reqs :
    /\ variant = "server"
    /\ req[r].pc = "done"
    /\ req[r].trace = <<"store", "call", "call", "send", "unlink", "respond">>
    /\ req[r].calls[1].status = "failed"
    /\ req[r].mails[1].status = "accepted"

\* C18: in src/server.mjs, when every ready handler step runs and every pending
\* provider and mail call settles, each POST /upload request that passed the auth
\* gate is eventually answered.
C18_UploadEventuallyAnswered ==
  \A r \in Reqs :
    (IsUpload(req[r]) /\ req[r].gate = "allowed" /\ req[r].pc # "done")
      ~> (req[r].pc = "done" /\ req[r].resp # <<>>)

C18_Witness ==
  \E r \in Reqs :
    /\ IsUpload(req[r])
    /\ req[r].gate = "allowed"
    /\ req[r].pc = "done"
    /\ BothModelsFailed(req[r])
    /\ Answered(req[r], 500, "false", "Transcription failed")

\* The response the handler of src/server.mjs owes a valid request, from the
\* request's own store, provider and transport outcomes.
OwnResponse(q) ==
  LET n == Len(q.calls) IN
  IF Count(q.trace, "storeFailed") = 1
  THEN Response(500, "false", "Unexpected server error", Undef)
  ELSE IF BothModelsFailed(q)
  THEN Response(500, "false", "Transcription failed", Undef)
  ELSE IF q.mails # <<>> /\ q.mails[1].status = "accepted"
  THEN Response(200, "true", "absent", Str(OrPlaceholder(TextOf(q.calls[n].text))))
  ELSE Response(500, "false", "Email send failed", Undef)

\* C20: in src/server.mjs with requests in flight at once, the temporary paths of
\* different requests are distinct, the file a request stored stays on disk until
\* that request's own fs.unlinkSync, the mail goes to the request's own address
\* with its own transcript, and the response is the one its own outcomes
\* determine.
C20_RequestsIsolated ==
  \A r \in Slots :
    LET q == req[r] IN
    /\ \A s \in Slots \ {r} : q.tmpPath # 0 => req[s].tmpPath # q.tmpPath
    /\ (q.tmpPath # 0 /\ Unlinks(q) = 0) => q.tmpPath \in files
    /\ \A i \in 1..Len(q.mails) :
         /\ q.mails[i].to = q.body.email
         /\ q.mails[i].transcript =
              Str(OrPlaceholder(TextOf(q.calls[Len(q.calls)].text)))
    /\ q.pc = "done" => q.resp = <<OwnResponse(q)>>

C20_Witness ==
  /\ req[1].pc = "awaitSend"
  /\ req[2].pc = "done"
  /\ req[2].tmpPath # 0
  /\ Count(req[2].trace, "unlink") = 1
  /\ req[1].tmpPath \in files
  /\ req[1].id < req[2].id

\* Text needle occurs in text hay.
Contains(hay, needle) ==
  \E i \in 1..(Len(hay) - Len(needle) + 1) :
    SubSeq(hay, i, i + Len(needle) - 1) = needle

\* C21: in src/server.mjs the object logged on a credential mismatch holds
\* neither the whole expected secret nor the whole supplied credential (when
\* that is not empty): each preview is a strict prefix, whatever the length.
C21_LogHidesSecrets ==
  \A r \in Reqs :
    LET q == req[r]
        k == Credential(q.headers)
        expected == Expected(API_SHARED_KEY)
    IN  variant = "server" =>
          \A i \in 1..Len(q.log) :
            /\ q.log[i].gotLen = Len(k)
            /\ q.log[i].expLen = Len(expected)
            /\ ~Contains(q.log[i].expPreview, expected)
            /\ k # <<>> => ~Contains(q.log[i].gotPreview, k)

\* C22: in src/server.mjs and part_002 every request is answered exactly once:
\* res.json is never called a second time for a request, also when an operation
\* after the response (the unlink of the uploaded file) fails.
C22_ExactlyOneResponse ==
  \A r \in Reqs :
    LET q == req[r] IN
    variant \in {"server", "part_002"}
      => /\ Len(q.resp) <= 1
         /\ q.pc = "done" => Len(q.resp) = 1

\* C23: in src/server.mjs a request that has its response holds no descriptor
\* any more: the one temp.openSync opened and the read streams of the provider
\* calls are closed.
C23_NoDescriptorLeft ==
  \A r \in Reqs :
    LET q == req[r] IN
    (variant = "server" /\ q.pc = "done" /\ q.resp # <<>>) => q.fds = {}

\* A header line, with the newline that ends it, when its value is present.
ClaimedLine(label, v) == IF Truthy(v) THEN label \o v.s \o <<Newline>> ELSE <<>>

\* The body the message is to have: the present header lines (elder name,
\* recorder name, file name), a blank line, the transcript.
ClaimedBody(q) ==
  LET file == IF q.body.fileName = Undef THEN Str(DefaultAudioFileName)
              ELSE q.body.fileName
      header == ClaimedLine(ElderLabel, q.body.elderName)
                  \o ClaimedLine(RecorderLabel, q.body.replyDisplayName)
                  \o ClaimedLine(FileLabel, file)
  IN  IF header = <<>> THEN q.transcriptText.s
      ELSE header \o <<Newline>> \o q.transcriptText.s

\* C24: in src/server.mjs the message handed to sendMail is a function of the
\* request fields and the transcript: it goes to caregiverEmail, its text is the
\* present header lines (elder, recorder, file name, in that order), a blank line
\* and the transcript, the attachment's content equals the text, and cc and bcc
\* are the supplied addresses, undefined when none was supplied.
C24_CompositionDetermined ==
  \A r \in Reqs :
    LET q == req[r] IN
    /\ q.pc = "awaitSend" => Len(q.mails) = 1
    /\ \A i \in 1..Len(q.mails) :
         LET m == q.mails[i] IN
         /\ m.to = q.body.email
         /\ m.text = Str(ClaimedBody(q))
         /\ m.attachment.content = m.text
         /\ m.cc = (IF Truthy(q.body.cc) THEN q.body.cc ELSE Undef)
         /\ m.bcc = (IF Truthy(q.body.bcc) THEN q.body.bcc ELSE Undef)

C24_Witness ==
  \E r \in Reqs :
    /\ req[r].pc = "done"
    /\ req[r].body.elderName = Str(<<"E">>)
    /\ req[r].body.replyDisplayName = Undef
    /\ req[r].body.fileName = Undef
    /\ req[r].body.cc = Str(<<>>)
    /\ req[r].body.bcc = Str(Copy)
    /\ Len(req[r].mails) = 1
    /\ req[r].mails[1].status = "accepted"
    /\ req[r].mails[1].cc = Undef
    /\ req[r].mails[1].bcc = Str(Copy)
    /\ req[r].mails[1].text =
         Str(ElderLabel \o <<"E", Newline>> \o FileLabel \o DefaultAudioFileName
               \o <<Newline, Newline, "h", "i">>)

============================================================================
